---- MODULE Spec2Model ----
(***************************************************************************)
(* The ledger-backed wallet of HamAan's billing app: apply_coin_txn,       *)
(* credit_purchase_once, ensure_wallet (src/billing/models.py) and the     *)
(* billing views that call them (src/billing/views.py).                    *)
(*                                                                         *)
(* Every request runs in its own worker process against one SQL database.  *)
(* The database is modelled at READ COMMITTED with row locks: a statement  *)
(* is one step, the writes of an open transaction.atomic block stay in     *)
(* tx[p] until the block exits, a row UPDATE or SELECT ... FOR UPDATE      *)
(* holds the row's lock until the transaction ends, and an INSERT whose    *)
(* unique key is held by another open transaction waits for it.            *)
(***************************************************************************)
EXTENDS Integers, FiniteSets, Sequences, TLC

\* ------------------------------------------------------------------ bounds
MaxCalls == 3
MaxDelta == 2

\* The worker processes of the application server, in the order the server
\* hands requests to them.
Workers == <<"w1", "w2">>
Procs == {Workers[i] : i \in DOMAIN Workers}
Users == {"u1", "u2"}
\* The users whose requests Spec explores.
Callers == {"u1"}
Keys == {"", "k1"}
None == "none"

\* The amounts callers apply: one coin or MaxDelta coins, credited or debited,
\* and the invalid 0.
Deltas == {0 - MaxDelta, 0 - 1, 0, 1, MaxDelta}

\* ------------------------------------------------------------------ rows
PurchaseIds == {"p1", "p2"}
Refs == {"", "r1"}
Absent == "absent"

\* timezone.timedelta(hours=2), in ticks of the clock
TwoHours == 2

\* Purchase.Status
PENDING == "PENDING"
PAID == "PAID"
CREDITED == "CREDITED"
FAILED == "FAILED"
CANCELED == "CANCELED"
EXPIRED == "EXPIRED"

\* Purchase.Gateway, the default of PurchaseCreateView and _create_purchase
SANDBOX == "SANDBOX"

\* CoinTxn.Reason
PURCHASE_CREDIT == "PURCHASE_CREDIT"
PROMO_CREDIT == "PROMO_CREDIT"
CHAT_REPLY_DEBIT == "CHAT_REPLY_DEBIT"
NOTE == "NOTE"

\* billing_coinpack as the admin filled it: code -> row
CoinPacks ==
    [c \in {"mini", "maxi", "retired"} |->
        CASE c = "mini" ->
                [coins |-> 1, is_active |-> TRUE, price_amount |-> 10, currency |-> "IRR"]
          [] c = "maxi" ->
                [coins |-> 2, is_active |-> TRUE, price_amount |-> 20, currency |-> "IRR"]
          [] OTHER ->
                [coins |-> 2, is_active |-> FALSE, price_amount |-> 20, currency |-> "IRR"]]

PackCodes == DOMAIN CoinPacks \cup {"unknown"}

\* Wallet() as Wallet.objects.get_or_create(user=user) inserts it.
NewWallet == [exists |-> TRUE, balance |-> 0, is_frozen |-> FALSE, last_txn_at |-> 0]

NoWallet == [exists |-> FALSE, balance |-> 0, is_frozen |-> FALSE, last_txn_at |-> 0]

NoPurchase == [exists |-> FALSE, user |-> None, status |-> "", gateway |-> "",
               gateway_ref_id |-> "", coins |-> 0, amount |-> 0, currency |-> "",
               credit_txn_id |-> 0, gateway_raw |-> <<>>,
               expires_at |-> 0]

\* The writes of an open transaction: the wallet row it inserted, the CoinTxn
\* row it inserted, its UPDATE of the wallet row, its UPDATE of the purchase row.
NoTx == [wcreated |-> None, txn |-> {}, wupd |-> {}, pupd |-> {}]

NoArgs == [user |-> None, delta |-> 0, reason |-> "", ref_type |-> "", ref_id |-> "",
           idempotency_key |-> ""]

NoObj == [balance |-> 0, is_frozen |-> FALSE]

NoReq == [purchase_id |-> None, status |-> "", gateway_ref_id |-> Absent, data |-> <<>>]

NoPObj == [status |-> "", gateway_ref_id |-> ""]

VARIABLES
    wallets,    \* billing_wallet, committed rows: user -> row
    ledger,     \* billing_cointxn, committed rows
    purchases,  \* billing_purchase, committed rows: id -> row
    clock,      \* timezone.now() and the order rows are created in
    packs,      \* billing_coinpack: code -> row
    wlock,      \* holder of each wallet row's lock
    plock,      \* holder of each purchase row's lock
    pc,         \* where each worker is in its request
    op,         \* the request a worker serves
    args,       \* apply_coin_txn's keyword arguments
    wobj,       \* apply_coin_txn's local `wallet` object
    req,        \* the callback's JSON body / credit's purchase
    pobj,       \* PaymentCallbackView's local `purchase` object
    tx,         \* the writes of the worker's open transaction
    result,     \* what the worker's last request returned or raised
    calls,      \* requests started so far
    replay      \* history: the request repeats a key that was on the ledger when it began

vars == <<wallets, ledger, purchases, clock, packs, wlock, plock, pc, op, args, wobj, req,
          pobj, tx, result, calls, replay>>

\* ------------------------------------------------------------------ helpers
RECURSIVE SumDelta(_)
SumDelta(S) ==
    IF S = {} THEN 0
    ELSE LET e == CHOOSE x \in S : TRUE IN e.delta + SumDelta(S \ {e})

UserTxns(u) == {e \in ledger : e.user = u}

\* What a request returned or raised.
R(kind) == [kind |-> kind, txn |-> {}, status |-> "", balance |-> 0]

OK == "ok"
ZeroDelta == "delta must be non-zero"
Frozen == "wallet is frozen"
Insufficient == "insufficient balance"
IntegrityError == "IntegrityError"
InvalidState == "purchase must be PAID (or already CREDITED)"
DeadlockDetected == "deadlock detected"
NotFound == "purchase_not_found"

Release(lock, p) == [x \in DOMAIN lock |-> IF lock[x] = p THEN None ELSE lock[x]]

\* What the chat flow answers with.
BotReply == "bot_reply"
Paywall == "paywall_replies"

\* The bot's reply returned whatever apply_coin_txn did.
RepliesRegardless(r) == [r EXCEPT !.kind = BotReply]

\* _handle_message: try: apply_coin_txn(...) except Exception: return
\* _paywall_replies(); return [_reply_payload(bot_reply.text)]
ChatReplies(r) == [r EXCEPT !.kind = IF r.kind = OK THEN BotReply ELSE Paywall]

\* The worker's request ends: its local objects and the request body go; what
\* it was asked (op, args) and what it answered (result) stay until its next
\* request.
Return(p, r) ==
    /\ pc' = [pc EXCEPT ![p] = "idle"]
    /\ wobj' = [wobj EXCEPT ![p] = NoObj]
    /\ pobj' = [pobj EXCEPT ![p] = NoPObj]
    /\ req' = [req EXCEPT ![p] = NoReq]
    /\ result' = [result EXCEPT ![p] = IF op[p] = "chat" THEN ChatReplies(r) ELSE r]
    /\ UNCHANGED <<op, args>>

\* The transaction ended without undoing its ledger write.
RaiseKeepsEntry(p, kind) ==
    /\ tx' = [tx EXCEPT ![p] = [wcreated |-> None, wupd |-> {}, txn |-> {}, pupd |-> {}]]
    /\ ledger' = ledger \cup tx[p].txn
    /\ wlock' = [u \in DOMAIN wlock |-> IF wlock[u] = p THEN None ELSE wlock[u]]
    /\ plock' = [i \in DOMAIN plock |-> IF plock[i] = p THEN None ELSE plock[i]]
    /\ pc' = [pc EXCEPT ![p] = "idle"]
    /\ wobj' = [wobj EXCEPT ![p] = NoObj]
    /\ pobj' = [pobj EXCEPT ![p] = NoPObj]
    /\ req' = [req EXCEPT ![p] = NoReq]
    /\ result' = [result EXCEPT ![p] = [kind |-> kind, txn |-> {}, status |-> "", balance |-> 0]]
    /\ UNCHANGED <<wallets, purchases, clock, packs, calls, replay, op, args>>

\* An exception leaves the transaction.atomic blocks: every write of the
\* transaction is rolled back and its row locks are released.
Raise(p, kind) ==
    /\ tx' = [tx EXCEPT ![p] = NoTx]
    /\ wlock' = Release(wlock, p)
    /\ plock' = Release(plock, p)
    /\ Return(p, R(kind))
    /\ UNCHANGED <<wallets, ledger, purchases, clock, packs, calls, replay>>

\* The wallet row of u as p's transaction sees it (READ COMMITTED plus its own writes).
WalletRowFor(p, u) ==
    LET base == IF wallets[u].exists THEN wallets[u]
                ELSE IF tx[p].wcreated = u THEN NewWallet ELSE NoWallet
    IN  IF \E w \in tx[p].wupd : w.user = u
        THEN LET w == CHOOSE w \in tx[p].wupd : w.user = u
             IN  [base EXCEPT !.balance = w.balance, !.last_txn_at = w.last_txn_at]
        ELSE base

\* The primary key of billing_wallet blind to rows not yet committed.
WalletInsertNeverBlocked(p, u) == FALSE

\* INSERT INTO billing_wallet waits while another open transaction holds the key.
WalletInsertBlocked(p, u) ==
    /\ ~wallets[u].exists
    /\ \E q \in Procs \ {p} : tx[q].wcreated = u

\* The unique index blind to rows not yet committed.
KeyInsertNeverBlocked(p, u, k) == FALSE

\* billing_cointxn_unique_user_idempotency_key, against rows not yet committed:
\* the INSERT waits for the other transaction to end.
KeyInsertBlocked(p, u, k) ==
    /\ k # ""
    /\ \E q \in Procs \ {p} : \E e \in tx[q].txn : e.user = u /\ e.idempotency_key = k

\* The unique constraint dropped.
IdempotencyKeyNeverTaken(u, k) == FALSE

\* The unique constraint on the key alone, not on (user, key).
IdempotencyKeyTakenByAnyUser(u, k) ==
    /\ k # ""
    /\ \E e \in ledger : e.idempotency_key = k

\* billing_cointxn_unique_user_idempotency_key, against committed rows.
IdempotencyKeyTaken(u, k) ==
    /\ k # ""
    /\ \E e \in ledger : e.user = u /\ e.idempotency_key = k

\* History only: a committed entry of u carries the non-empty key k.
IdempotencyKeyOnLedger(u, k) ==
    k # "" /\ \E e \in ledger : e.user = u /\ e.idempotency_key = k

\* The check for delta == 0 dropped.
NeverZeroDelta(delta) == FALSE

\* if delta == 0
IsZeroDelta(delta) == delta = 0

\* The check of is_frozen dropped.
NeverFrozen(w) == FALSE

\* if wallet.is_frozen
IsFrozen(w) == w.is_frozen

\* The check made on the balance before the debit instead of after it.
InsufficientBefore(balance, delta) == balance < 0

\* The check with the debit's sign lost.
InsufficientSignLost(balance, delta) == balance - delta < 0

\* if wallet.balance + delta < 0
InsufficientBalance(balance, delta) == balance + delta < 0

\* The delta subtracted instead of added.
NewBalanceSignLost(row_balance, obj_balance, delta) == row_balance - delta

\* The balance computed from the worker's `wallet` object.
NewBalanceFromObject(row_balance, obj_balance, delta) == obj_balance + delta

\* balance=F("balance") + delta: computed by the database on the row, not on
\* the worker's `wallet` object.
NewBalance(row_balance, obj_balance, delta) == row_balance + delta

\* Rows read and written without locks.
NeverLocked(lock, x, p) == TRUE

\* A row lock is granted when no other transaction holds it.
CanLock(lock, x, p) == lock[x] \in {None, p}

\* A request arrives and the server hands it to its first idle worker.
Accepts(p) ==
    /\ pc[p] = "idle"
    /\ calls < MaxCalls
    /\ \A i, j \in DOMAIN Workers :
        (Workers[j] = p /\ pc[Workers[i]] = "idle") => j <= i

ReasonOf(d) == IF d > 0 THEN PROMO_CREDIT ELSE IF d < 0 THEN CHAT_REPLY_DEBIT ELSE NOTE

Init ==
    /\ wallets = [u \in Users |-> NoWallet]
    /\ ledger = {}
    /\ purchases = [i \in PurchaseIds |-> NoPurchase]
    /\ clock = 0
    /\ packs = CoinPacks
    /\ wlock = [u \in Users |-> None]
    /\ plock = [i \in PurchaseIds |-> None]
    /\ pc = [p \in Procs |-> "idle"]
    /\ op = [p \in Procs |-> None]
    /\ args = [p \in Procs |-> NoArgs]
    /\ wobj = [p \in Procs |-> NoObj]
    /\ req = [p \in Procs |-> NoReq]
    /\ pobj = [p \in Procs |-> NoPObj]
    /\ tx = [p \in Procs |-> NoTx]
    /\ result = [p \in Procs |-> R(None)]
    /\ calls = 0
    /\ replay = [p \in Procs |-> FALSE]


\* ------------------------------------------------------------------ apply_coin_txn
\* A caller invokes apply_coin_txn(user=u, delta=d, idempotency_key=k); the
\* zero-delta check comes before the first statement.
apply_coin_txn(p, US) ==
    /\ Accepts(p)
    /\ \E u \in US, d \in Deltas, k \in Keys :
        /\ args' = [args EXCEPT ![p] =
                [user |-> u, delta |-> d, reason |-> ReasonOf(d), ref_type |-> "",
                 ref_id |-> "", idempotency_key |-> k]]
        /\ IF IsZeroDelta(d)
           THEN /\ result' = [result EXCEPT ![p] = R(ZeroDelta)]
                /\ UNCHANGED pc
           ELSE /\ result' = [result EXCEPT ![p] = R(None)]
                /\ pc' = [pc EXCEPT ![p] = "ensure_wallet"]
        /\ replay' = [replay EXCEPT ![p] = IdempotencyKeyOnLedger(u, k)]
    /\ op' = [op EXCEPT ![p] = "apply"]
    /\ req' = [req EXCEPT ![p] = NoReq]
    /\ calls' = calls + 1
    /\ UNCHANGED <<wallets, ledger, purchases, clock, packs, wlock, plock, wobj, pobj, tx>>

\* wallet = ensure_wallet(user); if wallet.is_frozen: raise
apply_ensure_wallet(p) ==
    /\ pc[p] = "ensure_wallet"
    /\ LET u == args[p].user
           created == ~wallets[u].exists /\ tx[p].wcreated # u
           w == IF created THEN NewWallet ELSE WalletRowFor(p, u)
       IN  /\ ~WalletInsertBlocked(p, u)
           /\ IF IsFrozen(w)
              THEN Raise(p, Frozen)
              ELSE /\ tx' = [tx EXCEPT ![p].wcreated = IF created THEN u ELSE @]
                   /\ wobj' = [wobj EXCEPT ![p] =
                            [balance |-> w.balance, is_frozen |-> w.is_frozen]]
                   /\ pc' = [pc EXCEPT ![p] =
                            IF args[p].delta < 0 THEN "select_for_update" ELSE "create_txn"]
                   /\ UNCHANGED <<wallets, ledger, purchases, clock, packs, wlock, plock, op,
                                  args, req, pobj, result, calls, replay>>

\* wallet = Wallet.objects.select_for_update().get(user=user); the balance check
apply_select_for_update(p) ==
    /\ pc[p] = "select_for_update"
    /\ LET u == args[p].user
           w == WalletRowFor(p, u)
       IN  /\ CanLock(wlock, u, p)
           /\ IF InsufficientBalance(w.balance, args[p].delta)
              THEN Raise(p, Insufficient)
              ELSE /\ wlock' = [wlock EXCEPT ![u] = p]
                   /\ wobj' = [wobj EXCEPT ![p] =
                            [balance |-> w.balance, is_frozen |-> w.is_frozen]]
                   /\ pc' = [pc EXCEPT ![p] = "create_txn"]
                   /\ UNCHANGED <<wallets, ledger, purchases, clock, packs, plock, op, args,
                                  req, pobj, tx, result, calls, replay>>

\* txn = CoinTxn.objects.create(...), under billing_cointxn_delta_nonzero and
\* billing_cointxn_unique_user_idempotency_key
apply_create_txn(p) ==
    /\ pc[p] = "create_txn"
    /\ LET a == args[p] IN
       /\ ~KeyInsertBlocked(p, a.user, a.idempotency_key)
       /\ IF a.delta = 0 \/ IdempotencyKeyTaken(a.user, a.idempotency_key)
          THEN Raise(p, IntegrityError)
          ELSE /\ clock' = clock + 1
               /\ tx' = [tx EXCEPT ![p].txn =
                        {[id |-> clock + 1, user |-> a.user, delta |-> a.delta,
                          reason |-> a.reason, ref_type |-> a.ref_type,
                          ref_id |-> a.ref_id, idempotency_key |-> a.idempotency_key,
                          balance_after |-> <<>>]}]
               /\ pc' = [pc EXCEPT ![p] = "update_wallet"]
               /\ UNCHANGED <<wallets, ledger, purchases, packs, wlock, plock, op, args, wobj,
                              req, pobj, result, calls, replay>>

\* Wallet.objects.filter(user=user).update(balance=F("balance") + delta, ...);
\* wallet.refresh_from_db(fields=["balance"]); txn.balance_after = wallet.balance;
\* txn.save(update_fields=["balance_after"])
apply_update_wallet(p) ==
    /\ pc[p] = "update_wallet"
    /\ LET u == args[p].user
           w == WalletRowFor(p, u)
           nb == NewBalance(w.balance, wobj[p].balance, args[p].delta)
       IN  /\ CanLock(wlock, u, p)
           /\ wlock' = [wlock EXCEPT ![u] = p]
           /\ clock' = clock + 1
           /\ tx' = [tx EXCEPT
                    ![p].wupd = {[user |-> u, balance |-> nb, last_txn_at |-> clock + 1]},
                    ![p].txn = {[e EXCEPT !.balance_after = <<nb>>] : e \in @}]
           /\ wobj' = [wobj EXCEPT ![p].balance = nb]
           /\ pc' = [pc EXCEPT ![p] =
                    IF op[p] \in {"apply", "chat"} THEN "commit" ELSE "save_credited"]
    /\ UNCHANGED <<wallets, ledger, purchases, packs, plock, op, args, req, pobj, result, calls,
                   replay>>

\* The rows as they are once the transaction of p commits.
CommittedWallets(p) ==
    [u \in Users |->
        IF wallets[u].exists \/ tx[p].wcreated = u THEN WalletRowFor(p, u) ELSE wallets[u]]

CommittedPurchases(p) ==
    [i \in PurchaseIds |->
        IF \E u \in tx[p].pupd : u.id = i
        THEN LET u == CHOOSE u \in tx[p].pupd : u.id = i
             IN  [purchases[i] EXCEPT !.status = u.status, !.credit_txn_id = u.credit_txn_id]
        ELSE purchases[i]]

\* The outermost transaction.atomic block exits without an exception: COMMIT.
commit(p) ==
    /\ pc[p] = "commit"
    /\ wallets' = CommittedWallets(p)
    /\ ledger' = ledger \cup tx[p].txn
    /\ purchases' = CommittedPurchases(p)
    /\ wlock' = Release(wlock, p)
    /\ plock' = Release(plock, p)
    /\ tx' = [tx EXCEPT ![p] = NoTx]
    /\ Return(p, [R(OK) EXCEPT !.txn = tx[p].txn, !.status = pobj[p].status])
    /\ UNCHANGED <<clock, packs, calls, replay>>

\* ------------------------------------------------------------------ wallet reads and the admin
\* WalletBalanceView: wallet = ensure_wallet(user); return wallet.balance
WalletBalanceView(p, US) ==
    /\ Accepts(p)
    /\ \E u \in US :
        /\ ~WalletInsertBlocked(p, u)
        /\ wallets' = [wallets EXCEPT ![u] = IF @.exists THEN @ ELSE NewWallet]
        /\ result' = [result EXCEPT ![p] = [R("balance") EXCEPT !.balance = wallets'[u].balance]]
        /\ args' = [args EXCEPT ![p] = [NoArgs EXCEPT !.user = u]]
    /\ op' = [op EXCEPT ![p] = "balance"]
    /\ replay' = [replay EXCEPT ![p] = FALSE]
    /\ req' = [req EXCEPT ![p] = NoReq]
    /\ calls' = calls + 1
    /\ UNCHANGED <<ledger, purchases, clock, packs, wlock, plock, pc, wobj, pobj, tx>>

\* str(bot_reply.id) of the bot message created while serving the n-th request
MessageIds == <<"m1", "m2", "m3", "m4", "m5">>

\* if wallet.balance <= 0
OutOfCoins(balance) == balance <= 0

\* _handle_message, regular chat flow: wallet = ensure_wallet(user); with no
\* coins left the paywall is returned; otherwise the bot's reply message is
\* created and apply_coin_txn(delta=-1, reason=CHAT_REPLY_DEBIT,
\* ref_type="message", ref_id=str(bot_reply.id)) is entered.
chat_message(p, US) ==
    /\ Accepts(p)
    /\ \E u \in US :
        /\ ~WalletInsertBlocked(p, u)
        /\ wallets' = [wallets EXCEPT ![u] = IF @.exists THEN @ ELSE NewWallet]
        /\ IF OutOfCoins(wallets'[u].balance)
           THEN /\ result' = [result EXCEPT ![p] = R(Paywall)]
                /\ args' = [args EXCEPT ![p] = [NoArgs EXCEPT !.user = u]]
                /\ UNCHANGED pc
           ELSE /\ result' = [result EXCEPT ![p] = R(None)]
                /\ args' = [args EXCEPT ![p] =
                        [user |-> u, delta |-> 0 - 1, reason |-> CHAT_REPLY_DEBIT,
                         ref_type |-> "message", ref_id |-> MessageIds[calls + 1],
                         idempotency_key |-> ""]]
                /\ pc' = [pc EXCEPT ![p] = "ensure_wallet"]
    /\ op' = [op EXCEPT ![p] = "chat"]
    /\ replay' = [replay EXCEPT ![p] = FALSE]
    /\ req' = [req EXCEPT ![p] = NoReq]
    /\ calls' = calls + 1
    /\ UNCHANGED <<ledger, purchases, clock, packs, wlock, plock, wobj, pobj, tx>>

\* The admin sets or clears Wallet.is_frozen: an UPDATE of the wallet row.
AdminSetFrozen ==
    \E u \in Users, b \in BOOLEAN :
        /\ wallets[u].exists
        /\ wallets[u].is_frozen # b
        /\ wlock[u] = None
        /\ wallets' = [wallets EXCEPT ![u].is_frozen = b]
        /\ UNCHANGED <<ledger, purchases, clock, packs, wlock, plock, pc, op, args, wobj, req,
                       pobj, tx, result, calls, replay>>

\* ------------------------------------------------------------------ purchases
\* uuid.uuid4(): a fresh id
NextPurchaseId == IF ~purchases["p1"].exists THEN "p1" ELSE "p2"

\* The catalog row CoinPack.objects.get(code=pack_code, is_active=True) finds.
SellsInactive(catalog, code) == code \in DOMAIN catalog

ActivePack(catalog, code) == code \in DOMAIN catalog /\ catalog[code].is_active

\* PurchaseCreateView for user u and pack_code code: the pack is looked up among
\* the active packs and its coins, price and currency are copied into the
\* purchase.
PurchaseCreate(p, u, code) ==
    /\ Accepts(p)
    /\ IF ActivePack(packs, code)
       THEN /\ ~purchases[NextPurchaseId].exists
            /\ purchases' = [purchases EXCEPT ![NextPurchaseId] =
                    [exists |-> TRUE, user |-> u, status |-> PENDING, gateway |-> SANDBOX,
                     gateway_ref_id |-> "", coins |-> packs[code].coins,
                     amount |-> packs[code].price_amount,
                     currency |-> packs[code].currency,
                     credit_txn_id |-> 0, gateway_raw |-> <<>>,
                     expires_at |-> clock + TwoHours]]
            /\ result' = [result EXCEPT ![p] = [R(OK) EXCEPT !.status = PENDING]]
       ELSE /\ result' = [result EXCEPT ![p] = R("pack_not_found")]
            /\ UNCHANGED purchases
    /\ op' = [op EXCEPT ![p] = "create_purchase"]
    /\ replay' = [replay EXCEPT ![p] = FALSE]
    /\ args' = [args EXCEPT ![p] = NoArgs]
    /\ req' = [req EXCEPT ![p] = NoReq]
    /\ calls' = calls + 1
    /\ UNCHANGED <<wallets, ledger, clock, packs, wlock, plock, pc, wobj, pobj, tx>>

PurchaseCreateView(p, US) ==
    \E u \in US, code \in PackCodes : PurchaseCreate(p, u, code)

\* The admin edits a pack: new coins, price and currency, or is_active flipped.
Repriced(row) ==
    [row EXCEPT !.coins = @ + 1, !.price_amount = @ + 5, !.currency = "USD"]

AdminEditPack(p) ==
    /\ Accepts(p)
    /\ \E code \in DOMAIN packs :
        \E row \in {Repriced(packs[code]),
                    [packs[code] EXCEPT !.is_active = ~@]} :
            packs' = [packs EXCEPT ![code] = row]
    /\ op' = [op EXCEPT ![p] = "admin"]
    /\ result' = [result EXCEPT ![p] = R(OK)]
    /\ replay' = [replay EXCEPT ![p] = FALSE]
    /\ args' = [args EXCEPT ![p] = NoArgs]
    /\ req' = [req EXCEPT ![p] = NoReq]
    /\ calls' = calls + 1
    /\ UNCHANGED <<wallets, ledger, purchases, clock, wlock, plock, pc, wobj, pobj, tx>>

\* (data.get("status") or "").upper()
Upper(s) ==
    CASE s = "paid" -> "PAID"
      [] s = "Ok" -> "OK"
      [] s = "success" -> "SUCCESS"
      [] s = "failed" -> "FAILED"
      [] s = "canceled" -> "CANCELED"
      [] OTHER -> s

StatusInputs == {"paid", "failed"}

\* Every kind of status a gateway sends, a missing one included.
GatewayStatuses == {"paid", "Ok", "success", "PAID", "failed", "canceled", ""}

\* Every status taken for a success.
AlwaysSuccess(flag) == TRUE

\* The success set without PAID.
SuccessWithoutPaid(flag) == flag \in {"OK", "SUCCESS"}

\* status_flag in {"PAID", "OK", "SUCCESS"}
IsSuccess(flag) == flag \in {"PAID", "OK", "SUCCESS"}

\* The unique constraint dropped.
GatewayRefNeverTaken(i, gateway, ref) == FALSE

\* billing_purchase_unique_gateway_ref: another row holds the non-empty pair
GatewayRefTaken(i, gateway, ref) ==
    /\ ref # ""
    /\ \E j \in PurchaseIds \ {i} :
        /\ purchases[j].exists
        /\ purchases[j].gateway = gateway
        /\ purchases[j].gateway_ref_id = ref

\* PaymentCallbackView: the body is parsed and the purchase is loaded.
PaymentCallbackView(p, SS) ==
    /\ Accepts(p)
    /\ \E i \in PurchaseIds, s \in SS, ref \in Refs \cup {Absent} :
        /\ IF ~purchases[i].exists
           THEN /\ result' = [result EXCEPT ![p] = R(NotFound)]
                /\ req' = [req EXCEPT ![p] = NoReq]
                /\ UNCHANGED <<pc, pobj>>
           ELSE /\ result' = [result EXCEPT ![p] = R(None)]
                /\ req' = [req EXCEPT ![p] =
                        [purchase_id |-> i, status |-> Upper(s), gateway_ref_id |-> ref,
                         data |-> <<i, s, ref>>]]
                /\ pobj' = [pobj EXCEPT ![p] =
                        [status |-> purchases[i].status,
                         gateway_ref_id |-> purchases[i].gateway_ref_id]]
                /\ pc' = [pc EXCEPT ![p] = "save"]
    /\ op' = [op EXCEPT ![p] = "callback"]
    /\ replay' = [replay EXCEPT ![p] = FALSE]
    /\ args' = [args EXCEPT ![p] = NoArgs]
    /\ calls' = calls + 1
    /\ UNCHANGED <<wallets, ledger, purchases, clock, packs, wlock, plock, wobj, tx>>

\* purchase.status = PAID; purchase.gateway_ref_id = data.get("gateway_ref_id",
\* purchase.gateway_ref_id); purchase.save(update_fields=[...])
callback_save_paid(p) ==
    /\ pc[p] = "save"
    /\ IsSuccess(req[p].status)
    /\ LET i == req[p].purchase_id
           ref == IF req[p].gateway_ref_id = Absent THEN pobj[p].gateway_ref_id
                  ELSE req[p].gateway_ref_id
       IN  /\ CanLock(plock, i, p)
           /\ IF GatewayRefTaken(i, purchases[i].gateway, ref)
              THEN /\ Return(p, R(IntegrityError))
                   /\ UNCHANGED purchases
              ELSE /\ purchases' = [purchases EXCEPT ![i].status = PAID,
                                                     ![i].gateway_ref_id = ref]
                   /\ pobj' = [pobj EXCEPT ![p] = [status |-> PAID, gateway_ref_id |-> ref]]
                   /\ pc' = [pc EXCEPT ![p] = "lock_purchase"]
                   /\ UNCHANGED <<op, args, wobj, req, result>>
    /\ UNCHANGED <<wallets, ledger, clock, packs, wlock, plock, tx, calls, replay>>

\* purchase.status = FAILED; purchase.gateway_raw = data; purchase.save(...)
callback_save_failed(p) ==
    /\ pc[p] = "save"
    /\ ~IsSuccess(req[p].status)
    /\ LET i == req[p].purchase_id IN
       /\ CanLock(plock, i, p)
       /\ purchases' = [purchases EXCEPT
                ![i].status = FAILED,
                ![i].gateway_raw = req[p].data]
    /\ Return(p, [R(OK) EXCEPT !.status = FAILED])
    /\ UNCHANGED <<wallets, ledger, clock, packs, wlock, plock, tx, calls, replay>>

\* ------------------------------------------------------------------ credit_purchase_once
\* A caller invokes credit_purchase_once(purchase=...) on a stored purchase.
credit_purchase_once(p) ==
    /\ Accepts(p)
    /\ \E i \in PurchaseIds :
        /\ purchases[i].exists
        /\ req' = [req EXCEPT ![p] = [NoReq EXCEPT !.purchase_id = i]]
    /\ op' = [op EXCEPT ![p] = "credit"]
    /\ replay' = [replay EXCEPT ![p] = FALSE]
    /\ args' = [args EXCEPT ![p] = NoArgs]
    /\ pc' = [pc EXCEPT ![p] = "lock_purchase"]
    /\ result' = [result EXCEPT ![p] = R(None)]
    /\ calls' = calls + 1
    /\ UNCHANGED <<wallets, ledger, purchases, clock, packs, wlock, plock, wobj, pobj, tx>>

\* idem = f"purchase:{purchase.gateway}:{purchase.gateway_ref_id or purchase.id}"
IdemKey(row, i) ==
    "purchase:" \o row.gateway \o ":" \o (IF row.gateway_ref_id # "" THEN row.gateway_ref_id ELSE i)

\* The already-credited return dropped.
NeverAlreadyCredited(row) == FALSE

\* if purchase.status == CREDITED and purchase.credit_txn_id
AlreadyCredited(row) == row.status = CREDITED /\ row.credit_txn_id # 0

\* The status check dropped.
CreditableAlways(status) == TRUE

\* The status check with PAID left out.
CreditableWithoutPaid(status) == status \in {CREDITED}

\* if purchase.status not in (PAID, CREDITED)
CreditableStatus(status) == status \in {PAID, CREDITED}

\* purchase = Purchase.objects.select_for_update().get(id=purchase.id), the two
\* status checks, and the entry into apply_coin_txn (its zero-delta check).
credit_lock_purchase(p) ==
    /\ pc[p] = "lock_purchase"
    /\ LET i == req[p].purchase_id
           row == purchases[i]
       IN  /\ CanLock(plock, i, p)
           /\ IF ~CreditableStatus(row.status)
              THEN Raise(p, InvalidState)
              ELSE IF AlreadyCredited(row)
              THEN /\ Return(p, [R(OK) EXCEPT
                            !.txn = {e \in ledger : e.id = row.credit_txn_id},
                            !.status = pobj[p].status])
                   /\ UNCHANGED <<wallets, ledger, purchases, clock, packs, wlock, plock, tx,
                                  calls, replay>>
              ELSE IF IsZeroDelta(row.coins)
              THEN Raise(p, ZeroDelta)
              ELSE /\ plock' = [plock EXCEPT ![i] = p]
                   /\ args' = [args EXCEPT ![p] =
                            [user |-> row.user, delta |-> row.coins,
                             reason |-> PURCHASE_CREDIT, ref_type |-> "purchase",
                             ref_id |-> i, idempotency_key |-> IdemKey(row, i)]]
                   /\ pc' = [pc EXCEPT ![p] = "ensure_wallet"]
                   /\ UNCHANGED <<wallets, ledger, purchases, clock, packs, wlock, op, wobj, req,
                                  pobj, tx, result, calls, replay>>

\* purchase.status = CREDITED; purchase.credit_txn_id = txn.id; purchase.save(...)
credit_save_credited(p) ==
    /\ pc[p] = "save_credited"
    /\ tx' = [tx EXCEPT ![p].pupd =
            {[id |-> req[p].purchase_id, status |-> CREDITED,
              credit_txn_id |-> (CHOOSE e \in tx[p].txn : TRUE).id]}]
    /\ pc' = [pc EXCEPT ![p] = "commit"]
    /\ UNCHANGED <<wallets, ledger, purchases, clock, packs, wlock, plock, op, args, wobj, req,
                   pobj, result, calls, replay>>

\* ------------------------------------------------------------------ the database's deadlock detector
\* p waits for a lock or a unique key that the open transaction of q holds.
WaitsFor(p, q) ==
    /\ p # q
    /\ \/ pc[p] \in {"select_for_update", "update_wallet"} /\ wlock[args[p].user] = q
       \/ /\ pc[p] = "create_txn"
          /\ args[p].idempotency_key # ""
          /\ \E e \in tx[q].txn : e.user = args[p].user
                                  /\ e.idempotency_key = args[p].idempotency_key
       \/ /\ pc[p] = "ensure_wallet"
          /\ ~wallets[args[p].user].exists
          /\ tx[q].wcreated = args[p].user
       \/ pc[p] = "lock_purchase" /\ plock[req[p].purchase_id] = q

\* Two transactions wait for each other: the database aborts one of them.
deadlock_detected(p) ==
    /\ \E q \in Procs : WaitsFor(p, q) /\ WaitsFor(q, p)
    /\ Raise(p, DeadlockDetected)

Next ==
    \/ \E p \in Procs : apply_coin_txn(p, Callers)
    \/ \E p \in Procs : apply_ensure_wallet(p)
    \/ \E p \in Procs : apply_select_for_update(p)
    \/ \E p \in Procs : apply_create_txn(p)
    \/ \E p \in Procs : apply_update_wallet(p)
    \/ \E p \in Procs : commit(p)
    \/ \E p \in Procs : WalletBalanceView(p, Callers)
    \/ AdminSetFrozen
    \/ \E p \in Procs : PurchaseCreateView(p, Callers)
    \/ \E p \in Procs : PaymentCallbackView(p, StatusInputs)
    \/ \E p \in Procs : callback_save_paid(p)
    \/ \E p \in Procs : callback_save_failed(p)
    \/ \E p \in Procs : credit_purchase_once(p)
    \/ \E p \in Procs : credit_lock_purchase(p)
    \/ \E p \in Procs : credit_save_credited(p)
    \/ \E p \in Procs : deadlock_detected(p)

Spec == Init /\ [][Next]_vars

\* ------------------------------------------------------------------ scenarios
\* The entry a PROMO_CREDIT of b coins left on the ledger of u.
Funding(u, b) ==
    [id |-> 1, user |-> u, delta |-> b, reason |-> PROMO_CREDIT, ref_type |-> "",
     ref_id |-> "", idempotency_key |-> "", balance_after |-> <<b>>]

\* The wallet row that credit left behind.
Funded(b) == [NewWallet EXCEPT !.balance = b, !.last_txn_at = 2]

\* A purchase the gateway reported as paid (PurchaseCreateView, then the
\* callback's save), its owner's wallet absent, new, funded or frozen, and
\* nothing but credit_purchase_once calls on it.
InitCredit ==
    /\ \E code \in {c \in DOMAIN CoinPacks : CoinPacks[c].is_active}, ref \in Refs :
        purchases = [i \in PurchaseIds |->
            IF i = "p1"
            THEN [exists |-> TRUE, user |-> "u1", status |-> PAID, gateway |-> SANDBOX,
                  gateway_ref_id |-> ref, coins |-> CoinPacks[code].coins,
                  amount |-> CoinPacks[code].price_amount, currency |-> CoinPacks[code].currency,
                  credit_txn_id |-> 0, gateway_raw |-> <<>>,
                  expires_at |-> TwoHours]
            ELSE NoPurchase]
    /\ \/ /\ \E w \in {NoWallet, NewWallet, [NewWallet EXCEPT !.is_frozen = TRUE]} :
                wallets = [u \in Users |-> IF u = "u1" THEN w ELSE NoWallet]
          /\ ledger = {}
          /\ clock = 0
       \/ /\ \E f \in BOOLEAN :
                wallets = [u \in Users |->
                    IF u = "u1" THEN [Funded(1) EXCEPT !.is_frozen = f] ELSE NoWallet]
          /\ ledger = {Funding("u1", 1)}
          /\ clock = 2
    /\ packs = CoinPacks
    /\ wlock = [u \in Users |-> None]
    /\ plock = [i \in PurchaseIds |-> None]
    /\ pc = [p \in Procs |-> "idle"]
    /\ op = [p \in Procs |-> None]
    /\ args = [p \in Procs |-> NoArgs]
    /\ wobj = [p \in Procs |-> NoObj]
    /\ req = [p \in Procs |-> NoReq]
    /\ pobj = [p \in Procs |-> NoPObj]
    /\ tx = [p \in Procs |-> NoTx]
    /\ result = [p \in Procs |-> R(None)]
    /\ calls = 0
    /\ replay = [p \in Procs |-> FALSE]

NextCredit ==
    \/ \E p \in Procs : credit_purchase_once(p)
    \/ \E p \in Procs : credit_lock_purchase(p)
    \/ \E p \in Procs : apply_ensure_wallet(p)
    \/ \E p \in Procs : apply_create_txn(p)
    \/ \E p \in Procs : apply_update_wallet(p)
    \/ \E p \in Procs : credit_save_credited(p)
    \/ \E p \in Procs : commit(p)

SpecCredit == InitCredit /\ [][NextCredit]_vars

\* A wallet funded with b coins and two apply_coin_txn(user, delta=-b) calls
\* that have both passed the zero-delta check, each with a key of its own
\* choice; nothing else runs.
InitDebit ==
    /\ \E b \in 1..MaxDelta :
        /\ wallets = [u \in Users |-> IF u = "u1" THEN Funded(b) ELSE NoWallet]
        /\ ledger = {Funding("u1", b)}
        /\ \E k \in [Procs -> Keys] :
            args = [p \in Procs |->
                [user |-> "u1", delta |-> 0 - b, reason |-> ReasonOf(0 - b),
                 ref_type |-> "", ref_id |-> "", idempotency_key |-> k[p]]]
    /\ purchases = [i \in PurchaseIds |-> NoPurchase]
    /\ clock = 2
    /\ packs = CoinPacks
    /\ wlock = [u \in Users |-> None]
    /\ plock = [i \in PurchaseIds |-> None]
    /\ pc = [p \in Procs |-> "ensure_wallet"]
    /\ op = [p \in Procs |-> "apply"]
    /\ wobj = [p \in Procs |-> NoObj]
    /\ req = [p \in Procs |-> NoReq]
    /\ pobj = [p \in Procs |-> NoPObj]
    /\ tx = [p \in Procs |-> NoTx]
    /\ result = [p \in Procs |-> R(None)]
    /\ calls = Cardinality(Procs)
    /\ replay = [p \in Procs |-> FALSE]

NextDebit ==
    \/ \E p \in Procs : apply_ensure_wallet(p)
    \/ \E p \in Procs : apply_select_for_update(p)
    \/ \E p \in Procs : apply_create_txn(p)
    \/ \E p \in Procs : apply_update_wallet(p)
    \/ \E p \in Procs : commit(p)

SpecDebit == InitDebit /\ [][NextDebit]_vars

\* Purchase.Status.choices
Statuses == {PENDING, PAID, CREDITED, FAILED, CANCELED, EXPIRED}

\* A purchase that was never credited, in any status a row can be stored with
\* (the callback view writes PAID and FAILED, the other two are choices of the
\* status column), and nothing but credit_purchase_once calls on it.
InitCreditAny ==
    /\ \E code \in {c \in DOMAIN CoinPacks : CoinPacks[c].is_active}, ref \in Refs,
          st \in Statuses \ {CREDITED} :
        purchases = [i \in PurchaseIds |->
            IF i = "p1"
            THEN [exists |-> TRUE, user |-> "u1", status |-> st, gateway |-> SANDBOX,
                  gateway_ref_id |-> ref, coins |-> CoinPacks[code].coins,
                  amount |-> CoinPacks[code].price_amount, currency |-> CoinPacks[code].currency,
                  credit_txn_id |-> 0, gateway_raw |-> <<>>,
                  expires_at |-> TwoHours]
            ELSE NoPurchase]
    /\ \E w \in {NoWallet, NewWallet} :
            wallets = [u \in Users |-> IF u = "u1" THEN w ELSE NoWallet]
    /\ ledger = {}
    /\ clock = 0
    /\ packs = CoinPacks
    /\ wlock = [u \in Users |-> None]
    /\ plock = [i \in PurchaseIds |-> None]
    /\ pc = [p \in Procs |-> "idle"]
    /\ op = [p \in Procs |-> None]
    /\ args = [p \in Procs |-> NoArgs]
    /\ wobj = [p \in Procs |-> NoObj]
    /\ req = [p \in Procs |-> NoReq]
    /\ pobj = [p \in Procs |-> NoPObj]
    /\ tx = [p \in Procs |-> NoTx]
    /\ result = [p \in Procs |-> R(None)]
    /\ calls = 0
    /\ replay = [p \in Procs |-> FALSE]

SpecCreditAny == InitCreditAny /\ [][NextCredit]_vars

\* Two purchases of one user as PurchaseCreateView stored them, and nothing
\* but gateway callbacks on them.
InitCallbacks ==
    /\ \E code \in {c \in DOMAIN CoinPacks : CoinPacks[c].is_active} :
        purchases = [i \in PurchaseIds |->
            [exists |-> TRUE, user |-> "u1", status |-> PENDING, gateway |-> SANDBOX,
             gateway_ref_id |-> "", coins |-> CoinPacks[code].coins,
             amount |-> CoinPacks[code].price_amount, currency |-> CoinPacks[code].currency,
             credit_txn_id |-> 0, gateway_raw |-> <<>>,
             expires_at |-> TwoHours]]
    /\ wallets = [u \in Users |-> NoWallet]
    /\ ledger = {}
    /\ clock = 0
    /\ packs = CoinPacks
    /\ wlock = [u \in Users |-> None]
    /\ plock = [i \in PurchaseIds |-> None]
    /\ pc = [p \in Procs |-> "idle"]
    /\ op = [p \in Procs |-> None]
    /\ args = [p \in Procs |-> NoArgs]
    /\ wobj = [p \in Procs |-> NoObj]
    /\ req = [p \in Procs |-> NoReq]
    /\ pobj = [p \in Procs |-> NoPObj]
    /\ tx = [p \in Procs |-> NoTx]
    /\ result = [p \in Procs |-> R(None)]
    /\ calls = 0
    /\ replay = [p \in Procs |-> FALSE]

NextCallbacks ==
    \/ \E p \in Procs : PaymentCallbackView(p, StatusInputs)
    \/ \E p \in Procs : callback_save_paid(p)
    \/ \E p \in Procs : callback_save_failed(p)
    \/ \E p \in Procs : credit_lock_purchase(p)
    \/ \E p \in Procs : apply_ensure_wallet(p)
    \/ \E p \in Procs : apply_create_txn(p)
    \/ \E p \in Procs : apply_update_wallet(p)
    \/ \E p \in Procs : credit_save_credited(p)
    \/ \E p \in Procs : commit(p)

SpecCallbacks == InitCallbacks /\ [][NextCallbacks]_vars

\* The row PurchaseCreateView stores.
Created(u, coins) ==
    [exists |-> TRUE, user |-> u, status |-> PENDING, gateway |-> SANDBOX,
     gateway_ref_id |-> "", coins |-> coins, amount |-> 10 * coins, currency |-> "IRR",
     credit_txn_id |-> 0, gateway_raw |-> <<>>,
     expires_at |-> TwoHours]

\* The entry credit_purchase_once leaves for purchase i under key k.
CreditEntry(i, u, coins, k, id, after) ==
    [id |-> id, user |-> u, delta |-> coins, reason |-> PURCHASE_CREDIT,
     ref_type |-> "purchase", ref_id |-> i, idempotency_key |-> k,
     balance_after |-> <<after>>]

\* The last request the server accepts is one callback. The purchase p1 is as
\* PurchaseCreateView stored it; before it, the owner's other purchase p2 was
\* not created, or created, or credited under the reference r1, or credited
\* under r1 and then again by a success callback carrying an empty reference,
\* or left PAID under r1 by a callback that found the wallet frozen.
InitOneCallback ==
    /\ \E c1, c2 \in {CoinPacks[c].coins : c \in {c \in DOMAIN CoinPacks : CoinPacks[c].is_active}} :
        \/ /\ \E r2 \in {NoPurchase, Created("u1", c2)} :
                    purchases = [i \in PurchaseIds |->
                        IF i = "p1" THEN Created("u1", c1) ELSE r2]
            /\ \E w \in {NoWallet, NewWallet, [NewWallet EXCEPT !.is_frozen = TRUE]} :
                    wallets = [u \in Users |-> IF u = "u1" THEN w ELSE NoWallet]
            /\ ledger = {}
            /\ clock = 0
        \/ /\ purchases = [i \in PurchaseIds |->
                    IF i = "p1" THEN Created("u1", c1)
                    ELSE [Created("u1", c2) EXCEPT !.status = PAID,
                            !.gateway_ref_id = "r1"]]
            /\ wallets = [u \in Users |->
                    IF u = "u1" THEN [NewWallet EXCEPT !.is_frozen = TRUE] ELSE NoWallet]
            /\ ledger = {}
            /\ clock = 0
        \/ /\ purchases = [i \in PurchaseIds |->
                    IF i = "p1" THEN Created("u1", c1)
                    ELSE [Created("u1", c2) EXCEPT !.status = CREDITED,
                            !.gateway_ref_id = "r1", !.credit_txn_id = 1]]
            /\ \E f \in BOOLEAN :
                    wallets = [u \in Users |->
                        IF u = "u1"
                        THEN [NewWallet EXCEPT !.balance = c2, !.last_txn_at = 2,
                                               !.is_frozen = f]
                        ELSE NoWallet]
            /\ ledger = {CreditEntry("p2", "u1", c2, "purchase:SANDBOX:r1", 1, c2)}
            /\ clock = 2
        \/ /\ purchases = [i \in PurchaseIds |->
                    IF i = "p1" THEN Created("u1", c1)
                    ELSE [Created("u1", c2) EXCEPT !.status = CREDITED,
                            !.credit_txn_id = 3]]
            /\ wallets = [u \in Users |->
                    IF u = "u1"
                    THEN [NewWallet EXCEPT !.balance = c2 + c2, !.last_txn_at = 4]
                    ELSE NoWallet]
            /\ ledger = {CreditEntry("p2", "u1", c2, "purchase:SANDBOX:r1", 1, c2),
                         CreditEntry("p2", "u1", c2, "purchase:SANDBOX:p2", 3, c2 + c2)}
            /\ clock = 4
    /\ packs = CoinPacks
    /\ wlock = [u \in Users |-> None]
    /\ plock = [i \in PurchaseIds |-> None]
    /\ pc = [p \in Procs |-> "idle"]
    /\ op = [p \in Procs |-> None]
    /\ args = [p \in Procs |-> NoArgs]
    /\ wobj = [p \in Procs |-> NoObj]
    /\ req = [p \in Procs |-> NoReq]
    /\ pobj = [p \in Procs |-> NoPObj]
    /\ tx = [p \in Procs |-> NoTx]
    /\ result = [p \in Procs |-> R(None)]
    /\ calls = MaxCalls - 1
    /\ replay = [p \in Procs |-> FALSE]

NextOneCallback ==
    \/ \E p \in Procs : PaymentCallbackView(p, GatewayStatuses)
    \/ \E p \in Procs : callback_save_paid(p)
    \/ \E p \in Procs : callback_save_failed(p)
    \/ \E p \in Procs : credit_lock_purchase(p)
    \/ \E p \in Procs : apply_ensure_wallet(p)
    \/ \E p \in Procs : apply_create_txn(p)
    \/ \E p \in Procs : apply_update_wallet(p)
    \/ \E p \in Procs : credit_save_credited(p)
    \/ \E p \in Procs : commit(p)

SpecOneCallback == InitOneCallback /\ [][NextOneCallback]_vars

\* Purchases are created and paid while the admin edits the catalog.
NextCatalog ==
    \/ \E p \in Procs : PurchaseCreateView(p, Callers)
    \/ \E p \in Procs : AdminEditPack(p)
    \/ \E p \in Procs : PaymentCallbackView(p, {"paid"})
    \/ \E p \in Procs : callback_save_paid(p)
    \/ \E p \in Procs : credit_lock_purchase(p)
    \/ \E p \in Procs : apply_ensure_wallet(p)
    \/ \E p \in Procs : apply_create_txn(p)
    \/ \E p \in Procs : apply_update_wallet(p)
    \/ \E p \in Procs : credit_save_credited(p)
    \/ \E p \in Procs : commit(p)

SpecCatalog == Init /\ [][NextCatalog]_vars

\* A caller's apply_coin_txn(user, delta, idempotency_key="k1") and its retry
\* with the same arguments have both passed the zero-delta check; the wallet
\* is absent (credits only) or funded with enough coins for the delta.
InitRetry ==
    /\ \E d \in Deltas \ {0} :
        /\ args = [p \in Procs |->
                [user |-> "u1", delta |-> d, reason |-> ReasonOf(d), ref_type |-> "",
                 ref_id |-> "", idempotency_key |-> "k1"]]
        /\ \/ /\ d > 0
              /\ wallets = [u \in Users |-> NoWallet]
              /\ ledger = {}
              /\ clock = 0
           \/ \E b \in 1..MaxDelta :
                /\ b + d >= 0
                /\ wallets = [u \in Users |-> IF u = "u1" THEN Funded(b) ELSE NoWallet]
                /\ ledger = {Funding("u1", b)}
                /\ clock = 2
    /\ purchases = [i \in PurchaseIds |-> NoPurchase]
    /\ packs = CoinPacks
    /\ wlock = [u \in Users |-> None]
    /\ plock = [i \in PurchaseIds |-> None]
    /\ pc = [p \in Procs |-> "ensure_wallet"]
    /\ op = [p \in Procs |-> "apply"]
    /\ wobj = [p \in Procs |-> NoObj]
    /\ req = [p \in Procs |-> NoReq]
    /\ pobj = [p \in Procs |-> NoPObj]
    /\ tx = [p \in Procs |-> NoTx]
    /\ result = [p \in Procs |-> R(None)]
    /\ calls = Cardinality(Procs)
    /\ replay = [p \in Procs |-> FALSE]

SpecRetry == InitRetry /\ [][NextDebit]_vars

\* Two deliveries of the gateway's callback for the PENDING purchase p1 have
\* both fetched it (Purchase.objects.get) and neither has written yet: the
\* first reports success, the second success or failure.
InitDeliveries ==
    /\ purchases = [i \in PurchaseIds |->
            IF i = "p1" THEN Created("u1", 1) ELSE NoPurchase]
    /\ wallets \in {[u \in Users |-> NoWallet],
                    [u \in Users |-> IF u = "u1" THEN NewWallet ELSE NoWallet]}
    /\ ledger = {}
    /\ clock = 0
    /\ packs = CoinPacks
    /\ wlock = [u \in Users |-> None]
    /\ plock = [i \in PurchaseIds |-> None]
    /\ pc = [p \in Procs |-> "save"]
    /\ op = [p \in Procs |-> "callback"]
    /\ args = [p \in Procs |-> NoArgs]
    /\ wobj = [p \in Procs |-> NoObj]
    /\ \E s \in StatusInputs, ref1 \in Refs \cup {Absent}, ref2 \in Refs \cup {Absent} :
        req = [p \in Procs |->
                IF p = "w1"
                THEN [purchase_id |-> "p1", status |-> Upper("paid"),
                      gateway_ref_id |-> ref1, data |-> <<"p1", "paid", ref1>>]
                ELSE [purchase_id |-> "p1", status |-> Upper(s),
                      gateway_ref_id |-> ref2, data |-> <<"p1", s, ref2>>]]
    /\ pobj = [p \in Procs |-> [status |-> PENDING, gateway_ref_id |-> ""]]
    /\ tx = [p \in Procs |-> NoTx]
    /\ result = [p \in Procs |-> R(None)]
    /\ calls = Cardinality(Procs)
    /\ replay = [p \in Procs |-> FALSE]

NextDeliveries ==
    \/ \E p \in Procs : callback_save_paid(p)
    \/ \E p \in Procs : callback_save_failed(p)
    \/ \E p \in Procs : credit_lock_purchase(p)
    \/ \E p \in Procs : apply_ensure_wallet(p)
    \/ \E p \in Procs : apply_create_txn(p)
    \/ \E p \in Procs : apply_update_wallet(p)
    \/ \E p \in Procs : credit_save_credited(p)
    \/ \E p \in Procs : commit(p)

SpecDeliveries == InitDeliveries /\ [][NextDeliveries]_vars

\* The process serving the request dies, or its connection is lost.
Aborted == "aborted"

\* A credit_purchase_once call aborts somewhere inside its transaction.atomic
\* block, the moment between the ledger write and the status update included:
\* the database rolls the open transaction back.
credit_aborts(p) ==
    /\ op[p] = "credit"
    /\ pc[p] \in {"ensure_wallet", "create_txn", "update_wallet", "save_credited", "commit"}
    /\ Raise(p, Aborted)

NextCreditAbort ==
    \/ \E p \in Procs : credit_purchase_once(p)
    \/ \E p \in Procs : credit_lock_purchase(p)
    \/ \E p \in Procs : apply_ensure_wallet(p)
    \/ \E p \in Procs : apply_create_txn(p)
    \/ \E p \in Procs : apply_update_wallet(p)
    \/ \E p \in Procs : credit_save_credited(p)
    \/ \E p \in Procs : commit(p)
    \/ \E p \in Procs : credit_aborts(p)

\* The paid purchase of InitCredit, credited by calls that may abort.
SpecCreditAbort == InitCredit /\ [][NextCreditAbort]_vars

\* A purchase nobody paid for, still PENDING after its expires_at went by (the
\* cleanup of expired purchases has not touched it), and one callback on it.
InitExpired ==
    /\ \E c \in {1, MaxDelta} :
        purchases = [i \in PurchaseIds |-> IF i = "p1" THEN Created("u1", c) ELSE NoPurchase]
    /\ \E w \in {NoWallet, NewWallet, [NewWallet EXCEPT !.is_frozen = TRUE]} :
        wallets = [u \in Users |-> IF u = "u1" THEN w ELSE NoWallet]
    /\ ledger = {}
    /\ clock = TwoHours + 1
    /\ packs = CoinPacks
    /\ wlock = [u \in Users |-> None]
    /\ plock = [i \in PurchaseIds |-> None]
    /\ pc = [p \in Procs |-> "idle"]
    /\ op = [p \in Procs |-> None]
    /\ args = [p \in Procs |-> NoArgs]
    /\ wobj = [p \in Procs |-> NoObj]
    /\ req = [p \in Procs |-> NoReq]
    /\ pobj = [p \in Procs |-> NoPObj]
    /\ tx = [p \in Procs |-> NoTx]
    /\ result = [p \in Procs |-> R(None)]
    /\ calls = MaxCalls - 1
    /\ replay = [p \in Procs |-> FALSE]

SpecExpired == InitExpired /\ [][NextOneCallback]_vars

\* The ledger of u1 holds one entry, with or without a key, and that of u2
\* none or one with the key k1; two
\* apply_coin_txn calls of one coin up or down, each for a user and with a key
\* of its own choice, have passed the zero-delta check.
InitKeys ==
    /\ \E k0 \in Keys :
        \/ /\ ledger = {[Funding("u1", 1) EXCEPT !.idempotency_key = k0]}
           /\ \E w \in {NoWallet, NewWallet} :
                wallets = [u \in Users |-> IF u = "u1" THEN Funded(1) ELSE w]
        \/ /\ ledger = {[Funding("u1", 1) EXCEPT !.idempotency_key = k0],
                         [Funding("u2", 1) EXCEPT !.idempotency_key = "k1", !.id = 2]}
           /\ wallets = [u \in Users |-> Funded(1)]
    /\ \E us \in [Procs -> Users], k \in [Procs -> Keys], d \in [Procs -> {0 - 1, 1}] :
        args = [p \in Procs |->
            [user |-> us[p], delta |-> d[p], reason |-> ReasonOf(d[p]), ref_type |-> "",
             ref_id |-> "", idempotency_key |-> k[p]]]
    /\ purchases = [i \in PurchaseIds |-> NoPurchase]
    /\ clock = 2
    /\ packs = CoinPacks
    /\ wlock = [u \in Users |-> None]
    /\ plock = [i \in PurchaseIds |-> None]
    /\ pc = [p \in Procs |-> "ensure_wallet"]
    /\ op = [p \in Procs |-> "apply"]
    /\ wobj = [p \in Procs |-> NoObj]
    /\ req = [p \in Procs |-> NoReq]
    /\ pobj = [p \in Procs |-> NoPObj]
    /\ tx = [p \in Procs |-> NoTx]
    /\ result = [p \in Procs |-> R(None)]
    /\ calls = Cardinality(Procs)
    /\ replay = [p \in Procs |-> FALSE]

NextKeys ==
    \/ \E p \in Procs : apply_ensure_wallet(p)
    \/ \E p \in Procs : apply_select_for_update(p)
    \/ \E p \in Procs : apply_create_txn(p)
    \/ \E p \in Procs : apply_update_wallet(p)
    \/ \E p \in Procs : commit(p)
    \/ \E p \in Procs : deadlock_detected(p)

SpecKeys == InitKeys /\ [][NextKeys]_vars

\* The caller of credit_purchase_once tries again on a purchase that is PAID,
\* as often as it likes.
credit_purchase_again(p) ==
    /\ pc[p] = "idle"
    /\ \E i \in PurchaseIds :
        /\ purchases[i].exists
        /\ purchases[i].status = PAID
        /\ req' = [req EXCEPT ![p] = [NoReq EXCEPT !.purchase_id = i]]
    /\ op' = [op EXCEPT ![p] = "credit"]
    /\ replay' = [replay EXCEPT ![p] = FALSE]
    /\ args' = [args EXCEPT ![p] = NoArgs]
    /\ pc' = [pc EXCEPT ![p] = "lock_purchase"]
    /\ result' = [result EXCEPT ![p] = R(None)]
    /\ UNCHANGED <<wallets, ledger, purchases, clock, packs, wlock, plock, wobj, pobj, tx,
                   calls>>

\* A PENDING purchase, the gateway's success callbacks for it, and credit
\* calls repeated while it is PAID.
InitPaidRetry ==
    /\ purchases = [i \in PurchaseIds |-> IF i = "p1" THEN Created("u1", 1) ELSE NoPurchase]
    /\ \E w \in {NoWallet, NewWallet} :
        wallets = [u \in Users |-> IF u = "u1" THEN w ELSE NoWallet]
    /\ ledger = {}
    /\ clock = 0
    /\ packs = CoinPacks
    /\ wlock = [u \in Users |-> None]
    /\ plock = [i \in PurchaseIds |-> None]
    /\ pc = [p \in Procs |-> "idle"]
    /\ op = [p \in Procs |-> None]
    /\ args = [p \in Procs |-> NoArgs]
    /\ wobj = [p \in Procs |-> NoObj]
    /\ req = [p \in Procs |-> NoReq]
    /\ pobj = [p \in Procs |-> NoPObj]
    /\ tx = [p \in Procs |-> NoTx]
    /\ result = [p \in Procs |-> R(None)]
    /\ calls = 0
    /\ replay = [p \in Procs |-> FALSE]

\* What worker p does next.
PaidRetryStep(p) ==
    \/ PaymentCallbackView(p, {"paid"})
    \/ callback_save_paid(p)
    \/ credit_purchase_again(p)
    \/ credit_lock_purchase(p)
    \/ apply_ensure_wallet(p)
    \/ apply_create_txn(p)
    \/ apply_update_wallet(p)
    \/ credit_save_credited(p)
    \/ commit(p)

NextPaidRetry == \E p \in Procs : PaidRetryStep(p)

\* Every worker that can take a step eventually takes one.
SpecPaidRetry ==
    InitPaidRetry /\ [][NextPaidRetry]_vars /\ \A p \in Procs : WF_vars(PaidRetryStep(p))

\* A user whose wallet is absent, empty or funded with b coins, frozen or not,
\* sends chat messages; nothing else runs.
InitChat ==
    /\ \/ /\ \E w \in {NoWallet, NewWallet} :
                wallets = [u \in Users |-> IF u = "u1" THEN w ELSE NoWallet]
          /\ ledger = {}
          /\ clock = 0
       \/ /\ \E b \in 1..MaxDelta, f \in BOOLEAN :
                /\ wallets = [u \in Users |->
                        IF u = "u1" THEN [Funded(b) EXCEPT !.is_frozen = f] ELSE NoWallet]
                /\ ledger = {Funding("u1", b)}
          /\ clock = 2
    /\ purchases = [i \in PurchaseIds |-> NoPurchase]
    /\ packs = CoinPacks
    /\ wlock = [u \in Users |-> None]
    /\ plock = [i \in PurchaseIds |-> None]
    /\ pc = [p \in Procs |-> "idle"]
    /\ op = [p \in Procs |-> None]
    /\ args = [p \in Procs |-> NoArgs]
    /\ wobj = [p \in Procs |-> NoObj]
    /\ req = [p \in Procs |-> NoReq]
    /\ pobj = [p \in Procs |-> NoPObj]
    /\ tx = [p \in Procs |-> NoTx]
    /\ result = [p \in Procs |-> R(None)]
    /\ calls = 0
    /\ replay = [p \in Procs |-> FALSE]

NextChat ==
    \/ \E p \in Procs : chat_message(p, Callers)
    \/ \E p \in Procs : apply_ensure_wallet(p)
    \/ \E p \in Procs : apply_select_for_update(p)
    \/ \E p \in Procs : apply_create_txn(p)
    \/ \E p \in Procs : apply_update_wallet(p)
    \/ \E p \in Procs : commit(p)

SpecChat == InitChat /\ [][NextChat]_vars

\* ------------------------------------------------------------------ claims
\* The request of worker p ends in this step.
CallEnds(p) == pc[p] # "idle" /\ pc'[p] = "idle"

\* Worker p is handed a request in this step.
CallStarts(p) == Accepts(p) /\ calls' = calls + 1

KeyEntries(u, k) == {e \in ledger : e.user = u /\ e.idempotency_key = k}

CreditEntries(i) ==
    {e \in ledger : e.reason = PURCHASE_CREDIT /\ e.ref_type = "purchase" /\ e.ref_id = i}

\* C1: in every committed state each user's Wallet.balance equals the sum of
\* the deltas of that user's ledger entries (0 when there are none).
BalanceEqualsLedgerSum ==
    \A u \in Users : wallets[u].balance = SumDelta(UserTxns(u))

\* C1 witness: a purchase credit and a debit are both on a user's ledger.
WitnessCreditAndDebitOnLedger ==
    \E u \in Users : \E c, d \in UserTxns(u) :
        /\ c.reason = PURCHASE_CREDIT
        /\ d.delta < 0
        /\ wallets[u].balance = c.delta + d.delta

\* C2: no wallet's balance is ever negative.
BalanceNeverNegative ==
    \A u \in Users : wallets[u].balance >= 0

\* C2 witness: a debit emptied a wallet and a further debit was refused.
WitnessDebitRefusedAtZero ==
    \E p \in Procs : \E e \in ledger :
        /\ e.delta < 0
        /\ e.balance_after = <<0>>
        /\ op[p] = "apply"
        /\ result[p].kind = Insufficient
        /\ args[p].user = e.user
        /\ wallets[e.user].balance = 0

CreditCallsDone ==
    /\ \A p \in Procs : pc[p] = "idle"
    /\ \E p \in Procs : op[p] = "credit"

\* The purchase is CREDITED by exactly one PURCHASE_CREDIT entry of its coins,
\* which is on top of whatever else the owner's ledger holds.
CreditedOnce(i) ==
    /\ purchases[i].status = CREDITED
    /\ \E e \in CreditEntries(i) :
        /\ CreditEntries(i) = {e}
        /\ e.delta = purchases[i].coins
        /\ e.delta > 0
        /\ e.user = purchases[i].user
        /\ purchases[i].credit_txn_id = e.id
        /\ wallets[e.user].balance = SumDelta(UserTxns(e.user) \ {e}) + e.delta

PurchaseCreditedAtMostOnce ==
    \A i \in PurchaseIds : Cardinality(CreditEntries(i)) <= 1

\* Both debits have returned.
DebitCallsDone == \A p \in Procs : pc[p] = "idle"

\* C6: of two concurrent debits of B on a wallet that holds B, under every
\* interleaving, never both succeed; when both have returned one succeeded and
\* the other failed with insufficient balance, the balance is 0 and one debit
\* entry was written; and neither is ever stuck.
ConcurrentDebitsOneWins ==
    /\ Cardinality({e \in ledger : e.delta < 0}) <= 1
    /\ wallets["u1"].balance >= 0
    /\ DebitCallsDone =>
        /\ \E p \in Procs :
            /\ result[p].kind = OK
            /\ result[p].txn = {e \in ledger : e.delta < 0}
            /\ \A q \in Procs \ {p} : result[q].kind = Insufficient
        /\ wallets["u1"].balance = 0
        /\ Cardinality({e \in ledger : e.delta < 0}) = 1
        /\ \A e \in ledger : e.delta < 0 => e.balance_after = <<0>>
    /\ ~DebitCallsDone => ENABLED NextDebit

\* C6 witness: the second worker's debit went through and the first worker's
\* was refused for insufficient balance.
WitnessSecondDebitWins ==
    /\ DebitCallsDone
    /\ result["w2"].kind = OK
    /\ result["w1"].kind = Insufficient
    /\ wallets["u1"].balance = 0
    /\ Cardinality(ledger) = 2

TerminalStatuses == {CREDITED, FAILED, CANCELED, EXPIRED}

\* C7 as claimed: a purchase whose stored status is CREDITED, FAILED, CANCELED
\* or EXPIRED keeps that status in every later step.
TerminalStatusNeverChanges ==
    [][\A i \in PurchaseIds :
        purchases[i].status \in TerminalStatuses
        => purchases'[i].status = purchases[i].status]_vars

\* C8: a debit whose locked balance check finds balance + delta < 0 ends with
\* the insufficient-balance condition; no entry is written, the wallet rows
\* (balance, last_txn_at) stay as they were and nothing of it stays pending.
InsufficientDebitChangesNothing ==
    [][\A p \in Procs :
        ( /\ pc[p] = "select_for_update"
          /\ pc'[p] # "select_for_update"
          /\ wallets[args[p].user].balance + args[p].delta < 0 )
        => ( /\ pc'[p] = "idle"
             /\ result'[p].kind = Insufficient
             /\ ledger' = ledger
             /\ wallets' = wallets
             /\ tx'[p] = NoTx
             /\ wlock'[args[p].user] # p )]_vars

\* C8 witness: a debit was refused for insufficient balance on a wallet that
\* holds coins, and the ledger shows only the credit that put them there.
WitnessInsufficientDebit ==
    \E p \in Procs :
        /\ op[p] = "apply"
        /\ result[p].kind = Insufficient
        /\ wallets[args[p].user].balance > 0
        /\ wallets[args[p].user].balance + args[p].delta < 0
        /\ \A e \in ledger : e.delta > 0

\* C9: an apply with delta 0 ends at once with the validation error, appends no
\* entry and creates or changes no wallet; no stored entry has delta 0.
ZeroDeltaRejected ==
    /\ [](\A e \in ledger : e.delta # 0)
    /\ [][\A p \in Procs :
            (CallStarts(p) /\ op'[p] = "apply" /\ args'[p].delta = 0)
            => ( /\ pc'[p] = "idle"
                 /\ result'[p].kind = ZeroDelta
                 /\ ledger' = ledger
                 /\ wallets' = wallets
                 /\ tx' = tx )]_vars

\* C9 witness: a zero-delta apply for a user without a wallet was rejected.
WitnessZeroDeltaNoWallet ==
    \E p \in Procs :
        /\ op[p] = "apply"
        /\ args[p].delta = 0
        /\ result[p].kind = ZeroDelta
        /\ ~wallets[args[p].user].exists

\* C10: an apply (a caller's, or the one credit_purchase_once issues) that
\* reads a wallet whose is_frozen flag is set ends with the frozen condition and
\* writes nothing; a balance read of a frozen wallet returns its balance.
FrozenWalletBlocksApply ==
    [][\A p \in Procs :
        /\ ( /\ pc[p] = "ensure_wallet"
             /\ pc'[p] # "ensure_wallet"
             /\ wallets[args[p].user].is_frozen )
           => ( /\ pc'[p] = "idle"
                /\ result'[p].kind = Frozen
                /\ ledger' = ledger
                /\ wallets' = wallets
                /\ tx'[p] = NoTx )
        /\ ( /\ CallStarts(p)
             /\ op'[p] = "balance"
             /\ wallets[args'[p].user].is_frozen )
           => ( /\ result'[p].kind = "balance"
                /\ result'[p].balance = wallets[args'[p].user].balance
                /\ wallets' = wallets )]_vars

\* C10 witness: the credit of a paid purchase was refused because the owner's
\* wallet is frozen, and the wallet and the ledger are untouched.
WitnessFrozenCreditRefused ==
    \E p \in Procs :
        /\ op[p] = "callback"
        /\ pc[p] = "idle"
        /\ result[p].kind = Frozen
        /\ wallets[args[p].user].is_frozen
        /\ wallets[args[p].user].balance = 0
        /\ ledger = {}

\* C11: credit_purchase_once on a purchase whose stored status is PENDING,
\* FAILED, CANCELED or EXPIRED ends with the invalid-state condition and writes
\* nothing: ledger, wallets and the purchase row (status, credit_txn_id) stay
\* as they were and nothing of it stays pending.
CreditOfUncreditableFails ==
    [][\A p \in Procs :
        ( /\ pc[p] = "lock_purchase"
          /\ pc'[p] # "lock_purchase"
          /\ purchases[req[p].purchase_id].status \in {PENDING, FAILED, CANCELED, EXPIRED} )
        => ( /\ pc'[p] = "idle"
             /\ result'[p].kind = InvalidState
             /\ ledger' = ledger
             /\ wallets' = wallets
             /\ purchases' = purchases
             /\ tx'[p] = NoTx
             /\ plock'[req[p].purchase_id] # p )]_vars

\* C11 witness: credit_purchase_once on an EXPIRED purchase was refused as an
\* invalid state and nothing was written.
WitnessCreditOfExpiredRefused ==
    \E p \in Procs :
        /\ op[p] = "credit"
        /\ pc[p] = "idle"
        /\ result[p].kind = InvalidState
        /\ purchases["p1"].status = EXPIRED
        /\ purchases["p1"].credit_txn_id = 0
        /\ ledger = {}
        /\ wallets["u1"].balance = 0

\* C12: credit_purchase_once on a purchase stored as CREDITED with a
\* credit_txn_id returns the ledger entry of that id and writes nothing:
\* ledger, wallets and purchases are unchanged by the call.
CreditOfCreditedReturnsEntry ==
    [][\A p \in Procs :
        ( /\ pc[p] = "lock_purchase"
          /\ pc'[p] # "lock_purchase"
          /\ purchases[req[p].purchase_id].status = CREDITED
          /\ purchases[req[p].purchase_id].credit_txn_id # 0 )
        => ( /\ pc'[p] = "idle"
             /\ result'[p].kind = OK
             /\ \E e \in ledger :
                    /\ e.id = purchases[req[p].purchase_id].credit_txn_id
                    /\ result'[p].txn = {e}
             /\ ledger' = ledger
             /\ wallets' = wallets
             /\ purchases' = purchases
             /\ tx'[p] = NoTx )]_vars

\* C12 witness: a direct credit_purchase_once call on a purchase that a
\* callback had credited returned the callback's entry; it is the only entry.
WitnessReplayReturnedEntry ==
    \E p, q \in Procs : \E i \in PurchaseIds :
        /\ op[p] = "credit" /\ op[q] = "callback"
        /\ pc[p] = "idle" /\ pc[q] = "idle"
        /\ result[p].kind = OK /\ result[q].kind = OK
        /\ result[p].txn = result[q].txn
        /\ result[p].txn = CreditEntries(i)
        /\ Cardinality(ledger) = 1
        /\ purchases[i].status = CREDITED
        /\ wallets[purchases[i].user].balance = purchases[i].coins

\* The reference a success callback is about to store on its purchase.
RefToStore(p) ==
    IF req[p].gateway_ref_id = Absent THEN pobj[p].gateway_ref_id
    ELSE req[p].gateway_ref_id

\* C13: no two purchases hold the same non-empty (gateway, gateway_ref_id);
\* a success callback that would store on its purchase a pair another purchase
\* holds is rejected: no purchase row changes (status and gateway_ref_id stay)
\* and nothing is credited.
GatewayRefHeldByOnePurchase ==
    /\ [](\A i, j \in PurchaseIds :
            ( /\ purchases[i].exists /\ purchases[j].exists
              /\ purchases[i].gateway = purchases[j].gateway
              /\ purchases[i].gateway_ref_id = purchases[j].gateway_ref_id
              /\ purchases[i].gateway_ref_id # "" ) => i = j)
    /\ [][\A p \in Procs :
            ( /\ pc[p] = "save"
              /\ pc'[p] # "save"
              /\ IsSuccess(req[p].status)
              /\ \E j \in PurchaseIds \ {req[p].purchase_id} :
                    /\ purchases[j].exists
                    /\ purchases[j].gateway = purchases[req[p].purchase_id].gateway
                    /\ purchases[j].gateway_ref_id = RefToStore(p)
                    /\ RefToStore(p) # "" )
            => ( /\ pc'[p] = "idle"
                 /\ result'[p].kind = IntegrityError
                 /\ purchases' = purchases
                 /\ ledger' = ledger
                 /\ wallets' = wallets
                 /\ tx'[p] = NoTx )]_vars

\* C13 witness: the first purchase was credited under a reference; a success
\* callback with that reference for the second purchase was rejected, the
\* second purchase is still PENDING without a reference and one entry exists.
WitnessSecondPurchaseRefRejected ==
    \E p \in Procs :
        /\ op[p] = "callback"
        /\ pc[p] = "idle"
        /\ result[p].kind = IntegrityError
        /\ purchases["p1"].status = CREDITED
        /\ purchases["p1"].gateway_ref_id = "r1"
        /\ purchases["p2"].status = PENDING
        /\ purchases["p2"].gateway_ref_id = ""
        /\ ledger = CreditEntries("p1")
        /\ Cardinality(ledger) = 1

\* The reference a success callback of p stores on its purchase, read before
\* or after the callback's save.
StoredRef(p) ==
    IF req[p].gateway_ref_id = Absent THEN purchases[req[p].purchase_id].gateway_ref_id
    ELSE req[p].gateway_ref_id

\* Another purchase holds the reference the callback of p stores.
RefHeldByOther(p) ==
    /\ StoredRef(p) # ""
    /\ \E j \in PurchaseIds \ {req[p].purchase_id} :
        /\ purchases[j].exists
        /\ purchases[j].gateway = purchases[req[p].purchase_id].gateway
        /\ purchases[j].gateway_ref_id = StoredRef(p)

\* An entry of the owner already carries the key the callback of p credits under.
CreditKeyOnLedger(p) ==
    LET i == req[p].purchase_id
        k == "purchase:" \o purchases[i].gateway \o ":" \o
                (IF StoredRef(p) # "" THEN StoredRef(p) ELSE i)
    IN  \E e \in ledger : e.user = purchases[i].user /\ e.idempotency_key = k

\* A callback with a success status for the newly created purchase p1, whose
\* owner's wallet is not frozen, ends in this step.
SuccessCallbackEnds(p) ==
    /\ CallEnds(p)
    /\ op[p] = "callback"
    /\ req[p].status \in {"PAID", "OK", "SUCCESS"}
    /\ req[p].purchase_id = "p1"
    /\ ~wallets[purchases["p1"].user].is_frozen

\* The callback of p ends with p1 CREDITED under the reference it carried, by
\* one new PURCHASE_CREDIT entry of the purchase's coins that raises the
\* owner's balance by them.
CallbackCredits(p) ==
    /\ result'[p].kind = OK
    /\ purchases'["p1"].status = CREDITED
    /\ purchases'["p1"].gateway_ref_id = StoredRef(p)
    /\ purchases'["p1"].coins = purchases["p1"].coins
    /\ \E e \in ledger' :
        /\ e \notin ledger
        /\ ledger' = ledger \cup {e}
        /\ e.user = purchases["p1"].user
        /\ e.delta = purchases["p1"].coins
        /\ e.reason = PURCHASE_CREDIT
        /\ e.ref_type = "purchase"
        /\ e.ref_id = "p1"
        /\ e.balance_after = <<wallets[e.user].balance + e.delta>>
        /\ purchases'["p1"].credit_txn_id = e.id
        /\ wallets'[e.user].balance = wallets[e.user].balance + e.delta
        /\ wallets'[e.user].exists

\* C14 as claimed: a callback with a success status on a PENDING purchase
\* whose owner's wallet is not frozen records the reference, credits the
\* purchase by one PURCHASE_CREDIT entry of its coins (ref_type "purchase",
\* ref_id the purchase id), sets credit_txn_id and raises the balance by them.
SuccessCallbackCredits ==
    [][\A p \in Procs : SuccessCallbackEnds(p) => CallbackCredits(p)]_vars

\* C14 as amended: it does so when no other purchase holds the reference it
\* carries and no entry of the owner carries its credit key, on the way
\* storing PAID with the reference; otherwise it is rejected with the
\* integrity error and nothing is credited.
SuccessCallbackCreditsFreshRef ==
    /\ [][\A p \in Procs :
            SuccessCallbackEnds(p) =>
                IF RefHeldByOther(p) \/ CreditKeyOnLedger(p)
                THEN /\ result'[p].kind = IntegrityError
                     /\ ledger' = ledger
                     /\ wallets' = wallets
                     /\ purchases'["p1"].status \in {PENDING, PAID}
                     /\ purchases'["p1"].credit_txn_id = 0
                ELSE CallbackCredits(p)]_vars
    /\ [][\A p \in Procs :
            ( /\ pc[p] = "save" /\ pc'[p] = "lock_purchase"
              /\ req[p].purchase_id = "p1" )
            => ( /\ purchases["p1"].status = PENDING
                 /\ purchases'["p1"].status = PAID
                 /\ purchases'["p1"].gateway_ref_id = StoredRef(p) )]_vars

\* C14 witness: a success callback carrying the reference r1 credited the
\* purchase p1 of a user who had no wallet; the entry is the whole ledger.
WitnessCallbackCredited ==
    \E p \in Procs : \E e \in ledger :
        /\ op[p] = "callback"
        /\ pc[p] = "idle"
        /\ result[p].kind = OK
        /\ result[p].txn = {e}
        /\ ledger = {e}
        /\ e.ref_id = "p1"
        /\ e.ref_type = "purchase"
        /\ e.reason = PURCHASE_CREDIT
        /\ purchases["p1"].status = CREDITED
        /\ purchases["p1"].gateway_ref_id = "r1"
        /\ purchases["p1"].credit_txn_id = e.id
        /\ wallets["u1"].balance = purchases["p1"].coins
        /\ e.delta = purchases["p1"].coins

\* C15: a callback whose status is not a success status, on a purchase stored
\* as PENDING or PAID, stores FAILED and the raw payload on the purchase,
\* changes nothing else of it, and leaves the wallets and the ledger as they
\* were.
FailureCallbackMarksFailed ==
    [][\A p \in Procs :
        ( /\ pc[p] = "save"
          /\ pc'[p] # "save"
          /\ req[p].status \notin {"PAID", "OK", "SUCCESS"}
          /\ purchases[req[p].purchase_id].status \in {PENDING, PAID} )
        => ( /\ pc'[p] = "idle"
             /\ result'[p].kind = OK
             /\ result'[p].status = FAILED
             /\ purchases' = [purchases EXCEPT
                    ![req[p].purchase_id].status = FAILED,
                    ![req[p].purchase_id].gateway_raw = req[p].data]
             /\ req[p].data # <<>>
             /\ ledger' = ledger
             /\ wallets' = wallets
             /\ tx'[p] = NoTx )]_vars

\* C15 witness: a "canceled" callback moved the purchase that was PAID under
\* r1 to FAILED and stored its payload; wallet and ledger are untouched.
WitnessPaidMarkedFailed ==
    \E p \in Procs :
        /\ op[p] = "callback"
        /\ pc[p] = "idle"
        /\ result[p].status = FAILED
        /\ purchases["p2"].status = FAILED
        /\ purchases["p2"].gateway_ref_id = "r1"
        /\ purchases["p2"].gateway_raw = <<"p2", "canceled", Absent>>
        /\ purchases["p2"].credit_txn_id = 0
        /\ wallets["u1"].balance = 0
        /\ ledger = {}

\* C16: an apply_coin_txn that succeeds with delta d on a wallet whose balance
\* is b (0 when the wallet is new) appends exactly one entry, with delta d,
\* sets the balance to b + d and last_txn_at to a later time, leaves is_frozen
\* and every other wallet alone, and returns the entry with balance_after
\* b + d, the balance the wallet has after the write.
SuccessfulApplyWritesOnce ==
    [][\A p \in Procs :
        (pc[p] = "commit" /\ pc'[p] = "idle")
        => LET u == args[p].user
               d == args[p].delta
           IN  /\ result'[p].kind = OK
               /\ \E e \in ledger' :
                    /\ e \notin ledger
                    /\ ledger' = ledger \cup {e}
                    /\ result'[p].txn = {e}
                    /\ e.user = u
                    /\ e.delta = d
                    /\ e.reason = args[p].reason
                    /\ e.idempotency_key = args[p].idempotency_key
                    /\ e.balance_after = <<wallets[u].balance + d>>
                    /\ e.balance_after = <<wallets'[u].balance>>
               /\ wallets'[u].exists
               /\ wallets'[u].balance = wallets[u].balance + d
               /\ wallets'[u].last_txn_at > wallets[u].last_txn_at
               /\ wallets'[u].is_frozen = wallets[u].is_frozen
               /\ \A v \in Users \ {u} : wallets'[v] = wallets[v]]_vars

\* C16 witness: on a wallet holding 2 coins a debit of 1 succeeded and returned
\* its entry with balance_after 1, the balance of the wallet.
WitnessDebitReturnedBalanceAfter ==
    \E p \in Procs : \E e \in ledger :
        /\ op[p] = "apply"
        /\ pc[p] = "idle"
        /\ result[p].kind = OK
        /\ result[p].txn = {e}
        /\ e.delta = 0 - 1
        /\ e.balance_after = <<1>>
        /\ wallets[e.user].balance = 1
        /\ wallets[e.user].last_txn_at > e.id
        /\ Cardinality(ledger) = 2
        /\ \E c \in ledger : c.delta = 2 /\ c.balance_after = <<2>>

\* C17: PurchaseCreateView with the code of an active pack stores one PENDING
\* purchase of the user with the pack's coins, price and currency of that
\* moment, and with an unknown or inactive code answers pack_not_found and
\* stores nothing; a stored purchase keeps its coins, amount and currency
\* whatever happens to the pack, and what is credited for it is its coins.
PurchaseSnapshotsPack ==
    /\ [][\A p \in Procs, u \in Callers, code \in PackCodes :
            PurchaseCreate(p, u, code) =>
                IF code \in DOMAIN packs /\ packs[code].is_active
                THEN /\ result'[p].kind = OK
                     /\ result'[p].status = PENDING
                     /\ \E i \in PurchaseIds :
                            /\ ~purchases[i].exists
                            /\ purchases' = [purchases EXCEPT ![i] =
                                    [exists |-> TRUE, user |-> u, status |-> PENDING,
                                     gateway |-> SANDBOX, gateway_ref_id |-> "",
                                     coins |-> packs[code].coins,
                                     amount |-> packs[code].price_amount,
                                     currency |-> packs[code].currency,
                                     credit_txn_id |-> 0, gateway_raw |-> <<>>,
                                     expires_at |-> clock + TwoHours]]
                ELSE /\ result'[p].kind = "pack_not_found"
                     /\ purchases' = purchases]_vars
    /\ [][\A i \in PurchaseIds :
            purchases[i].exists =>
                /\ purchases'[i].coins = purchases[i].coins
                /\ purchases'[i].amount = purchases[i].amount
                /\ purchases'[i].currency = purchases[i].currency]_vars
    /\ [](\A i \in PurchaseIds : \A e \in CreditEntries(i) :
            e.delta = purchases[i].coins)

\* C17 witness: one worker created a purchase of the mini pack, the admin then
\* changed the pack's coins, price and currency, and the callback credited the
\* coins the purchase had copied.
WitnessCreditedAtSnapshot ==
    /\ op["w1"] = "callback"
    /\ op["w2"] = None
    /\ pc["w1"] = "idle"
    /\ result["w1"].kind = OK
    /\ purchases["p1"].status = CREDITED
    /\ purchases["p1"].coins = 1
    /\ purchases["p1"].amount = 10
    /\ purchases["p1"].currency = "IRR"
    /\ packs["mini"] = Repriced(CoinPacks["mini"])
    /\ wallets["u1"].balance = 1
    /\ \E e \in ledger : ledger = {e} /\ e.delta = 1 /\ e.ref_id = "p1"

\* C18 as claimed: no apply commits its ledger entry and its balance change on
\* a wallet whose is_frozen flag was set before the write took effect.
ApplyNeverCommitsOnFrozenWallet ==
    [][\A p \in Procs :
        (pc[p] = "commit" /\ pc'[p] = "idle" /\ ledger' # ledger)
        => ~wallets[args[p].user].is_frozen]_vars

\* C19: when an apply and its retry with the same (user, idempotency_key) and
\* delta run concurrently, on a wallet that can bear the delta, at no time are
\* there two entries of the key; when both have returned there is exactly one,
\* one call succeeded with it, the other failed, and the balance is the
\* balance before plus the delta, once; neither call is ever stuck.
ConcurrentRetryAppliesOnce ==
    /\ Cardinality(KeyEntries("u1", "k1")) <= 1
    /\ (\A p \in Procs : pc[p] = "idle") =>
        \E e \in ledger : \E p \in Procs :
            /\ KeyEntries("u1", "k1") = {e}
            /\ e.delta = args[p].delta
            /\ result[p].kind = OK
            /\ result[p].txn = {e}
            /\ \A q \in Procs \ {p} : result[q].kind \in {IntegrityError, Insufficient}
            /\ wallets["u1"].balance = SumDelta(ledger \ {e}) + e.delta
            /\ \A f \in ledger \ {e} : f = Funding("u1", f.delta)
            /\ Cardinality(ledger) <= 2
    /\ (\E p \in Procs : pc[p] # "idle") => ENABLED NextDebit

\* C19 witness: of a debit of 1 and its concurrent retry on a wallet holding 2,
\* the first worker's was refused as a duplicate and the second worker's is
\* the key's one entry; the balance is 1.
WitnessConcurrentRetryRefused ==
    /\ \A p \in Procs : pc[p] = "idle"
    /\ result["w1"].kind = IntegrityError
    /\ result["w2"].kind = OK
    /\ args["w1"].delta = 0 - 1
    /\ KeyEntries("u1", "k1") = result["w2"].txn
    /\ Cardinality(KeyEntries("u1", "k1")) = 1
    /\ wallets["u1"].balance = 1

\* Both deliveries have been answered.
DeliveriesDone == \A p \in Procs : pc[p] = "idle"

\* C20 as claimed: once two concurrent deliveries for purchase p1 have been
\* answered, the wallet was credited for it at most once and its status is
\* CREDITED if and only if its credit entry is on the ledger.
ConcurrentCallbacksSerialize ==
    DeliveriesDone =>
        /\ Cardinality(CreditEntries("p1")) <= 1
        /\ purchases["p1"].status = CREDITED <=> CreditEntries("p1") # {}

\* C21: a credit_purchase_once call that aborts anywhere in its transaction
\* leaves the ledger, the wallets and the purchase as they were and holds no
\* lock; the purchase is PAID as long as no entry credits it, a call on it
\* only ever fails by aborting or on a frozen wallet, and a call that returns
\* finds or leaves the purchase credited exactly once.
AbortedCreditLeavesNothing ==
    /\ [][\A p \in Procs :
            (CallEnds(p) /\ result'[p].kind = Aborted) =>
                /\ ledger' = ledger
                /\ wallets' = wallets
                /\ purchases' = purchases
                /\ tx'[p] = NoTx
                /\ \A u \in Users : wlock'[u] # p
                /\ \A i \in PurchaseIds : plock'[i] # p]_vars
    /\ [](CreditEntries("p1") = {} <=> purchases["p1"].status = PAID)
    /\ [](Cardinality(CreditEntries("p1")) <= 1)
    /\ [](\A p \in Procs :
            (pc[p] = "idle" /\ op[p] = "credit") =>
                /\ result[p].kind \in {OK, Aborted, Frozen}
                /\ result[p].kind = Frozen => wallets["u1"].is_frozen
                /\ result[p].kind = OK =>
                    /\ CreditedOnce("p1")
                    /\ result[p].txn = CreditEntries("p1"))

\* C21 witness: the first call aborted between the ledger write and the status
\* update, its retry returned the entry, and the new wallet holds the
\* purchase's coins once.
WitnessRetryAfterAbortCredited ==
    /\ calls = 2
    /\ \A p \in Procs : pc[p] = "idle"
    /\ op["w1"] = "credit"
    /\ result["w1"].kind = OK
    /\ CreditedOnce("p1")
    /\ ledger = result["w1"].txn
    /\ \E e \in ledger : e.id > 2
    /\ wallets["u1"].balance = purchases["p1"].coins

\* The entry of u created just before e, if any.
Preceding(u, e) ==
    {f \in UserTxns(u) : f.id < e.id /\ \A g \in UserTxns(u) : g.id < e.id => g.id <= f.id}

\* C22 as claimed: taking a user's entries in the order they were created, the
\* first one's balance_after is its delta and every later one's is the
\* balance_after of the entry before it plus its own delta.
LedgerChronologicallyConsistent ==
    \A u \in Users : \A e \in UserTxns(u) :
        IF Preceding(u, e) = {}
        THEN e.balance_after = <<e.delta>>
        ELSE \A f \in Preceding(u, e) :
                e.balance_after = <<f.balance_after[1] + e.delta>>

\* C23 as claimed: a purchase that is PENDING when the time is past its
\* expires_at is not moved to PAID or CREDITED by a callback, and no entry
\* credits it.
ExpiredPurchaseStaysUnpaid ==
    /\ [][\A i \in PurchaseIds :
            (purchases[i].exists /\ purchases[i].status = PENDING
                /\ clock > purchases[i].expires_at)
            => purchases'[i].status \notin {PAID, CREDITED}]_vars
    /\ [](\A i \in PurchaseIds :
            (purchases[i].exists /\ clock > purchases[i].expires_at)
            => CreditEntries(i) = {})

\* C24 as claimed: in no reachable state do two calls wait for each other's
\* locks, and no call ends other than by success or one of its typed failures.
CallsNeverDeadlock ==
    /\ \A p, q \in Procs : ~(WaitsFor(p, q) /\ WaitsFor(q, p))
    /\ \A p \in Procs : result[p].kind # DeadlockDetected

\* C25 as claimed: the status a callback answers with is the purchase's stored
\* status when the call ends: CREDITED after a success callback that credited
\* it, FAILED after a non-success callback.
CallbackReturnsStoredStatus ==
    [][\A p \in Procs :
        (CallEnds(p) /\ op[p] = "callback" /\ result'[p].kind = OK) =>
            /\ result'[p].status = purchases'[req[p].purchase_id].status
            /\ result'[p].status = IF req[p].status \in {"PAID", "OK", "SUCCESS"}
                                   THEN CREDITED ELSE FAILED]_vars

\* Another entry of the caller's own ledger carries the caller's non-empty key.
OwnKeyUsed(p) ==
    /\ args[p].idempotency_key # ""
    /\ \E e \in ledger \ result[p].txn :
        e.user = args[p].user /\ e.idempotency_key = args[p].idempotency_key

\* Another call of the same user carries the caller's non-empty key.
OwnKeyContended(p) ==
    /\ args[p].idempotency_key # ""
    /\ \E q \in Procs \ {p} :
        args[q].user = args[p].user /\ args[q].idempotency_key = args[p].idempotency_key

\* C26: an apply is refused as a duplicate only when its key is non-empty and
\* another entry of the same user carries it; a call with an empty key is
\* never refused for its key, and a credit with an empty key, or with a key
\* that only another user uses, is applied.
KeyUniquePerUserWhenPresent ==
    \A p \in Procs :
        pc[p] = "idle" =>
            /\ result[p].kind = IntegrityError => OwnKeyUsed(p)
            /\ args[p].idempotency_key = "" => result[p].kind \in {OK, Insufficient}
            /\ (~OwnKeyUsed(p) /\ ~OwnKeyContended(p) /\ args[p].delta > 0) =>
                /\ result[p].kind = OK
                /\ result[p].txn \subseteq ledger
                /\ \E e \in result[p].txn :
                    e.user = args[p].user /\ e.idempotency_key = args[p].idempotency_key

\* C26 witness: u1 was credited under the key k1 that an entry of u2 already
\* carried, and a second credit of u1 with an empty key was applied next to
\* the first.
WitnessKeySharedByTwoUsers ==
    /\ \A p \in Procs : pc[p] = "idle" /\ result[p].kind = OK /\ args[p].user = "u1"
    /\ args["w1"].idempotency_key = "k1"
    /\ args["w2"].idempotency_key = ""
    /\ Cardinality(KeyEntries("u1", "k1")) = 1
    /\ Cardinality(KeyEntries("u2", "k1")) = 1
    /\ Cardinality(KeyEntries("u1", "")) = 2

\* C27 as claimed: whenever no call is running, a purchase is CREDITED if and
\* only if its credit_txn_id names a PURCHASE_CREDIT entry of its owner, of
\* its coins and referencing it; no PENDING, PAID or FAILED purchase has a
\* credit entry referencing it.
PurchaseStatusAgreesWithLedger ==
    \A i \in PurchaseIds :
        (purchases[i].exists /\ \A p \in Procs : pc[p] = "idle") =>
            /\ purchases[i].status = CREDITED <=>
                /\ purchases[i].credit_txn_id # 0
                /\ \E e \in CreditEntries(i) :
                    /\ e.id = purchases[i].credit_txn_id
                    /\ e.user = purchases[i].user
                    /\ e.delta = purchases[i].coins
            /\ purchases[i].status \in {PENDING, PAID, FAILED} => CreditEntries(i) = {}

\* C28 as claimed: a purchase that is PAID while its owner's wallet is not
\* frozen is eventually CREDITED when success callbacks and credit calls for
\* it are repeated.
PaidEventuallyCredited ==
    (purchases["p1"].status = PAID /\ ~wallets["u1"].is_frozen)
        ~> (purchases["p1"].status = CREDITED)

\* The committed debits for bot replies of u.
ReplyDebits(u) ==
    {e \in UserTxns(u) : e.reason = CHAT_REPLY_DEBIT /\ e.ref_type = "message"}

\* C29: a chat message is answered with the bot's reply only when a
\* CHAT_REPLY_DEBIT entry of delta -1 referencing that reply is on the ledger;
\* a message arriving at a balance <= 0 gets the paywall, and a paywall answer
\* leaves balance and ledger as they were; every reply debit belongs to a
\* reply of its own and the balance never goes below zero, so one coin pays
\* for exactly one reply however the messages interleave.
ReplyOnlyAfterDebit ==
    /\ [](\A p \in Procs :
            (pc[p] = "idle" /\ op[p] = "chat") =>
                /\ result[p].kind \in {BotReply, Paywall}
                /\ result[p].kind = BotReply =>
                    \E e \in ReplyDebits(args[p].user) :
                        /\ result[p].txn = {e}
                        /\ e.delta = 0 - 1
                        /\ e.ref_id = args[p].ref_id)
    /\ [][\A p \in Procs :
            /\ (CallStarts(p) /\ op'[p] = "chat" /\ wallets["u1"].balance <= 0)
                => (pc'[p] = "idle" /\ result'[p].kind = Paywall)
            /\ (op'[p] = "chat" /\ pc'[p] = "idle" /\ pc[p] # "idle"
                    /\ result'[p].kind = Paywall)
                => /\ ledger' = ledger
                   /\ \A u \in Users : wallets'[u].balance = wallets[u].balance]_vars
    /\ [](\A e, f \in ReplyDebits("u1") : e.ref_id = f.ref_id => e = f)
    /\ [](wallets["u1"].balance >= 0)
    /\ []((\A p \in Procs : pc[p] = "idle") =>
            /\ wallets["u1"].balance + Cardinality(ReplyDebits("u1")) = SumDelta(ledger \ ReplyDebits("u1"))
            /\ (~wallets["u1"].is_frozen /\ calls >= SumDelta(ledger \ ReplyDebits("u1")))
                => wallets["u1"].balance = 0)

\* C29 witness: of two concurrent chat messages at balance 1 the first
\* worker's got the paywall and the second worker's the reply, paid for by the
\* one debit that references it.
WitnessOneReplyForOneCoin ==
    /\ calls = 2
    /\ \A p \in Procs : pc[p] = "idle" /\ op[p] = "chat"
    /\ Funding("u1", 1) \in ledger
    /\ result["w1"].kind = Paywall
    /\ result["w2"].kind = BotReply
    /\ args["w1"].ref_id # ""
    /\ ReplyDebits("u1") = result["w2"].txn
    /\ \A e \in ReplyDebits("u1") : e.ref_id = args["w2"].ref_id
    /\ wallets["u1"].balance = 0

\* The open transactions holding a wallet row of u they created.
WalletCreators(u) == {p \in Procs : tx[p].wcreated = u}

\* C30: ensure_wallet creates the wallet of a user who has none with balance 0
\* and is_frozen false, and returns the wallet of a user who has one without
\* changing it (nor any other wallet, nor the ledger); at no time do two
\* wallet rows of one user exist, committed or not, however the calls
\* interleave.
EnsureWalletIdempotent ==
    /\ [][\A p \in Procs :
            (CallStarts(p) /\ op'[p] = "balance") =>
                LET u == args'[p].user IN
                /\ wallets'[u] = IF wallets[u].exists THEN wallets[u] ELSE NewWallet
                /\ \A v \in Users \ {u} : wallets'[v] = wallets[v]
                /\ result'[p].balance = wallets'[u].balance
                /\ ledger' = ledger]_vars
    /\ [][\A p \in Procs :
            (pc[p] = "ensure_wallet" /\ pc'[p] \in {"select_for_update", "create_txn"}) =>
                LET u == args[p].user IN
                /\ wallets' = wallets
                /\ ledger' = ledger
                /\ IF wallets[u].exists
                   THEN /\ tx'[p].wcreated = tx[p].wcreated
                        /\ wobj'[p].balance = wallets[u].balance
                        /\ wobj'[p].is_frozen = wallets[u].is_frozen
                   ELSE /\ tx'[p].wcreated = u
                        /\ wobj'[p].balance = 0
                        /\ wobj'[p].is_frozen = FALSE]_vars
    /\ [](\A u \in Users :
            /\ Cardinality(WalletCreators(u)) <= 1
            /\ wallets[u].exists => WalletCreators(u) = {})

\* C30 witness: the wallet of u1 was created by a credit of one coin and then
\* frozen; a later ensure_wallet returned it with its balance, still frozen.
WitnessEnsureReturnedWallet ==
    /\ op["w1"] = "balance"
    /\ pc["w1"] = "idle"
    /\ args["w1"].user = "u1"
    /\ result["w1"].balance = 1
    /\ wallets["u1"].balance = 1
    /\ wallets["u1"].is_frozen
    /\ wallets["u1"].last_txn_at > 0
    /\ Cardinality(ledger) = 1

====
